---- MODULE Spec2Model ----
(***************************************************************************)
(* A model of class Performance (src/Performance.h): a registry of timing  *)
(* records with the operations start, stop, show_results, reset_results.   *)
(*                                                                         *)
(* Instants and durations of std::chrono::high_resolution_clock are counts *)
(* of nanoseconds held in a 64-bit rep.  They exceed the integers TLC can  *)
(* compute with, so a count is written as seven base-1000 digits, least    *)
(* significant first: <<ns, us, ms, s, 10^3 s, 10^6 s, 10^9 s>>.  The      *)
(* field `time` of a record is a C++ int: storing a count in it keeps the  *)
(* count's low 32 bits (two's complement).                                 *)
(***************************************************************************)
EXTENDS Integers, Sequences

\* ------------------------------------------------------------------ bounds
\* start calls over the lifetime of the registry
MaxStarts == 2

\* --------------------------------------------------------- program constants
UNINITIALIZED == -1
seconds == 1
milliseconds == 2
microseconds == 3
nanoseconds == 4
EXIT_SUCCESS == 0

\* ------------------------------------------------- counts of nanoseconds
Zero == <<0, 0, 0, 0, 0, 0, 0>>

\* the digits of a + b from digit i up, given the carry into digit i
RECURSIVE AddFrom(_, _, _, _)
AddFrom(a, b, i, carry) ==
    IF i > 7 THEN <<>>
    ELSE LET d == a[i] + b[i] + carry
         IN  <<d % 1000>> \o AddFrom(a, b, i + 1, d \div 1000)

\* time_point + duration
Add(a, b) == AddFrom(a, b, 1, 0)

\* the digits of a - b from digit i up, given the borrow out of digit i
RECURSIVE SubFrom(_, _, _, _)
SubFrom(a, b, i, borrow) ==
    IF i > 7 THEN <<>>
    ELSE LET d == a[i] - b[i] - borrow
         IN  <<(d + 1000) % 1000>> \o SubFrom(a, b, i + 1, IF d < 0 THEN 1 ELSE 0)

\* end_time - start_time, for end_time >= start_time (the clock never runs back)
Sub(a, b) == SubFrom(a, b, 1, 0)

\* the count with its k lowest base-1000 digits dropped: the quotient by
\* 1000^k, truncated
DropDigits(d, k) ==
    <<IF 1 + k <= 7 THEN d[1 + k] ELSE 0, IF 2 + k <= 7 THEN d[2 + k] ELSE 0,
      IF 3 + k <= 7 THEN d[3 + k] ELSE 0, IF 4 + k <= 7 THEN d[4 + k] ELSE 0,
      IF 5 + k <= 7 THEN d[5 + k] ELSE 0, IF 6 + k <= 7 THEN d[6 + k] ELSE 0,
      IF 7 + k <= 7 THEN d[7 + k] ELSE 0>>

\* std::chrono::duration_cast<To>(d).count() for the four target units
duration_cast(res, d) ==
    CASE res = seconds -> DropDigits(d, 3)
      [] res = milliseconds -> DropDigits(d, 2)
      [] res = microseconds -> DropDigits(d, 1)
      [] res = nanoseconds -> DropDigits(d, 0)

\* the low 32 bits of a count, as two 16-bit halves <<high, low>>, by
\* Horner's rule from digit i down
RECURSIVE Low32(_, _, _, _)
Low32(d, i, hi, lo) ==
    IF i = 0 THEN <<hi, lo>>
    ELSE LET t == lo * 1000 + d[i]
         IN  Low32(d, i - 1, (hi * 1000 + t \div 65536) % 65536, t % 65536)

\* the conversion of a 64-bit count to int in `time = ....count()`: the value
\* modulo 2^32 in two's complement (what C++20 defines and every mainstream
\* compiler did before)
to_int(d) ==
    LET w == Low32(d, 7, 0, 0)
    IN  IF w[1] >= 32768 THEN (w[1] - 65536) * 65536 + w[2]
        ELSE w[1] * 65536 + w[2]

\* a < b, deciding by the digits from i down
RECURSIVE LessFrom(_, _, _)
LessFrom(a, b, i) ==
    IF i = 0 THEN FALSE
    ELSE IF a[i] # b[i] THEN a[i] < b[i]
    ELSE LessFrom(a, b, i - 1)

Less(a, b) == LessFrom(a, b, 7)

\* a non-negative int as a count
of_int(n) ==
    <<n % 1000, (n \div 1000) % 1000, (n \div 1000000) % 1000,
      n \div 1000000000, 0, 0, 0>>

\* ------------------------------------------------------------------- inputs
\* the arguments given to start: the defaults and three other pairs
StartArgs ==
    {<<"UNKNOWN", milliseconds>>, <<"load", seconds>>, <<"parse", microseconds>>,
     <<"poll", nanoseconds>>}

\* titles given to show_results; the first is the default argument
Titles == {"Performance List"}

\* the instants the clock shows at a call: 0 (the registry's construction),
\* 2^31 ns and 2^32 + 2^31 - 1 ns later; they lie 2^31, 2^32 - 1 and
\* 2^32 + 2^31 - 1 ns apart
Instants == {Zero, <<648, 483, 147, 2, 0, 0, 0>>, <<943, 450, 442, 6, 0, 0, 0>>}

\* arguments given to stop: every handle start can return, one below, one above
ProcessIds == -1 .. MaxStarts

\* -------------------------------------------------------------------- state
VARIABLES
    processes,  \* std::deque<process>: [name, resolution, time, start_time]
    clock,      \* what high_resolution_clock::now() returns
    last,       \* the last call: its operation and its argument
    result,     \* what the last call returned or threw, and what it replaced
    printed,    \* what the last call wrote to std::cout
    issued,     \* the handles start has returned, in the order of the calls
    epoch       \* the number of start calls before the last reset_results

vars == <<processes, clock, last, result, printed, issued, epoch>>

\* a default-initialised `process`: the member initialisers of the struct
process ==
    [name |-> "", resolution |-> UNINITIALIZED, time |-> UNINITIALIZED,
     start_time |-> clock]

\* processes.size()
size == Len(processes)

\* processes.at(process_id) does not throw std::out_of_range: the int converts
\* to an unsigned index, so a negative one is far beyond the size
in_range(process_id) == 0 <= process_id /\ process_id < size

\* processes.at(process_id), for an index in range
at(process_id) == processes[process_id + 1]

\* the call op(id); id is 0 for an operation without a handle
Call(op, id) == [op |-> op, id |-> id]

\* the call returned `value` (0 for void); `old` is what it replaced
Returned(value, old) == [threw |-> FALSE, value |-> value, old |-> old]

\* a handler that swallows the exception and returns EXIT_FAILURE
Swallowed(old) == [threw |-> FALSE, value |-> 1, old |-> old]

\* the call threw std::runtime_error("Error: Invalid Performance Operation")
Threw(old) == [threw |-> TRUE, value |-> 0, old |-> old]

\* a call writes nothing to std::cout
Nothing == [title |-> "", placeholder |-> FALSE, rows |-> <<>>]

Init ==
    /\ processes = <<>>
    /\ clock = Zero
    /\ last = Call("construct", 0)
    /\ result = Returned(0, 0)
    /\ printed = Nothing
    /\ issued = <<>>
    /\ epoch = 0

\* ------------------------------------------------------------------- start
\* a start that reads the size after push_back
step_position_after_push == size + 1

\* a start that returns the index of the last record there was
step_position_of_back == IF size = 0 THEN 0 ELSE size - 1

\* const int step_position = processes.size();
step_position == size

start(process_name, res) ==
    /\ Len(issued) < MaxStarts
    /\ LET this_step == [process EXCEPT !.name = process_name, !.resolution = res]
       IN  /\ processes' = Append(processes, this_step)
           /\ last' = Call("start", 0)
           /\ result' = Returned(step_position, 0)
           /\ issued' = Append(issued, step_position)
    /\ printed' = Nothing
    /\ UNCHANGED <<clock, epoch>>

\* -------------------------------------------------------------------- stop
\* the value the switch assigns to processes.at(process_id).time
measured(process_id) ==
    LET end_time == clock
        start_time == at(process_id).start_time
    IN  to_int(duration_cast(at(process_id).resolution, Sub(end_time, start_time)))

\* a stop that also restarts the record's clock
stored_restarting(process_id, time) ==
    [processes EXCEPT ![process_id + 1].time = time,
                      ![process_id + 1].start_time = clock]

\* processes.at(process_id).time = ...: the deque after the assignment
stored(process_id, time) == [processes EXCEPT ![process_id + 1].time = time]

\* a comparison that lets UNINITIALIZED itself pass
above_or_uninitialized(time) == time >= UNINITIALIZED

\* if (processes.at(process_id).time > UNINITIALIZED)
above_uninitialized(time) == time > UNINITIALIZED

stop(process_id) ==
    /\ last' = Call("stop", process_id)
    /\ printed' = Nothing
    /\ UNCHANGED <<clock, issued, epoch>>
    /\ \/ \* processes.at(process_id) throws std::out_of_range; the handler
          \* rethrows it as std::runtime_error
          /\ ~in_range(process_id)
          /\ result' = Threw(UNINITIALIZED)
          /\ UNCHANGED processes
       \/ \* the switch stores the time, then the time is compared
          /\ in_range(process_id)
          /\ LET time == measured(process_id)
             IN  /\ processes' = stored(process_id, time)
                 /\ \/ /\ above_uninitialized(time)
                       /\ result' = Returned(EXIT_SUCCESS, at(process_id).time)
                    \/ /\ ~above_uninitialized(time)
                       /\ result' = Threw(at(process_id).time)

\* ------------------------------------------------------------ show_results
\* the digits of |value|; |-2^31| is one more than |-2^31 + 1|
magnitude(value) ==
    IF value >= 0 THEN of_int(value)
    ELSE Add(of_int(-(value + 1)), <<1, 0, 0, 0, 0, 0, 0>>)

\* the index of the highest non-zero digit, 1 for zero
RECURSIVE top_group(_, _)
top_group(m, i) == IF i = 1 \/ m[i] # 0 THEN i ELSE top_group(m, i - 1)

\* format_integer_thousand_separator: the sign and the groups of three digits
\* the locale separates, most significant first
format_integer_thousand_separator(value) ==
    LET m == magnitude(value)
        n == top_group(m, 7)
    IN  [still_running |-> FALSE, negative |-> value < 0,
         groups |-> [j \in 1 .. n |-> m[n - j + 1]]]

suffix_of(res) ==
    CASE res = seconds -> "s"
      [] res = milliseconds -> "ms"
      [] res = microseconds -> "microseconds"
      [] res = nanoseconds -> "ns"
      [] OTHER -> ""

\* one line of the table: the name, the runtime column and the unit suffix
row(step) ==
    IF step.time = -1
    THEN [name |-> step.name,
          runtime |-> [still_running |-> TRUE, negative |-> FALSE, groups |-> <<>>],
          suffix |-> ""]
    ELSE [name |-> step.name,
          runtime |-> format_integer_thousand_separator(step.time),
          suffix |-> suffix_of(step.resolution)]

show_results(table_title) ==
    /\ printed' =
          IF size = 0
          THEN [title |-> table_title, placeholder |-> TRUE, rows |-> <<>>]
          ELSE [title |-> table_title, placeholder |-> FALSE,
                rows |-> [i \in 1 .. size |-> row(processes[i])]]
    /\ last' = Call("show_results", 0)
    /\ result' = Returned(0, 0)
    /\ UNCHANGED <<processes, clock, issued, epoch>>

\* ----------------------------------------------------------- reset_results
\* a reset that leaves the deque as it is
kept == processes

\* processes.clear(): the deque after it
cleared == <<>>

reset_results ==
    /\ processes' = cleared
    /\ last' = Call("reset_results", 0)
    /\ result' = Returned(0, size)
    /\ epoch' = Len(issued)
    /\ printed' = Nothing
    /\ UNCHANGED <<clock, issued>>

\* --------------------------------------------------------------- the clock
\* time passes between two calls; the clock is taken to be monotonic, as the
\* program takes it to be
Tick(instant) ==
    /\ Less(clock, instant)
    /\ clock' = instant
    /\ UNCHANGED <<processes, last, result, printed, issued, epoch>>

Next ==
    \/ \E args \in StartArgs : start(args[1], args[2])
    \/ \E process_id \in ProcessIds : stop(process_id)
    \/ \E table_title \in Titles : show_results(table_title)
    \/ reset_results
    \/ \E instant \in Instants : Tick(instant)

Spec == Init /\ [][Next]_vars

\* ------------------------------------------------------------------ claims
\* what show_results would print in the runtime column of record i
reads_still_running(i) == row(processes[i]).runtime.still_running

\* C1: every start returns the number of start calls made since the last
\* reset_results (or since construction), does not throw, and lengthens the
\* registry by one record.
C1_StartReturnsCount ==
    [][\A args \in StartArgs :
          start(args[1], args[2]) =>
              /\ ~result'.threw
              /\ result'.value = Len(issued) - epoch
              /\ Len(processes') = Len(processes) + 1]_vars

\* C1 witness: the first start after a reset_results that discarded records
\* has returned 0.
C1_Witness ==
    /\ last.op = "start"
    /\ epoch > 0
    /\ Len(issued) = epoch + 1
    /\ result.value = 0

\* C2: stop with a handle below 0 or at or above the number of records
\* throws and leaves the records and their number unchanged.
C2_InvalidHandleThrows ==
    [][\A process_id \in ProcessIds :
          ((process_id < 0 \/ process_id >= Len(processes)) /\ stop(process_id)) =>
              /\ last'.op = "stop"
              /\ result'.threw
              /\ processes' = processes]_vars

\* C2 witness: stop(N) has thrown on a registry of N > 0 records, one of
\* them already stopped.
C2_Witness ==
    /\ last.op = "stop"
    /\ result.threw
    /\ size > 0
    /\ last.id = size
    /\ \E i \in 1 .. size : processes[i].time # UNINITIALIZED

\* C3: a stop that throws, for whatever reason, leaves every record as it
\* was.
C3_FailedStopLeavesRegistry ==
    [][\A process_id \in ProcessIds :
          (stop(process_id) /\ result'.threw) => processes' = processes]_vars

\* C4: a record reads STILL RUNNING until stop succeeds on its handle, does
\* not read STILL RUNNING after a stop that succeeded, and never reads
\* STILL RUNNING again once it has stopped reading so.
C4_StillRunningUntilStopped ==
    [][\A i \in 1 .. Len(processes') :
          IF i > Len(processes) THEN reads_still_running(i)'
          ELSE LET succeeded == stop(i - 1) /\ ~result'.threw
               IN  /\ (reads_still_running(i) /\ ~succeeded) => reads_still_running(i)'
                   /\ succeeded => ~reads_still_running(i)'
                   /\ ~reads_still_running(i) => ~reads_still_running(i)']_vars

\* C5: right after reset_results, show_results prints the placeholder and no
\* rows, and stop throws for every handle that was valid before the reset.
C5_ResetClears ==
    [][last.op = "reset_results" =>
          /\ \A table_title \in Titles :
                show_results(table_title) =>
                    (printed'.placeholder /\ printed'.rows = <<>>)
          /\ \A process_id \in 0 .. result.old - 1 :
                stop(process_id) => (result'.threw /\ processes' = processes)]_vars

\* C5 witness: the registry is empty after a reset_results, and stop has
\* thrown for the handle of the last record the reset discarded.
C5_Witness ==
    /\ size = 0
    /\ epoch > 0
    /\ epoch = Len(issued)
    /\ last.op = "stop"
    /\ result.threw
    /\ last.id = issued[epoch]

\* C6 as stated: over the lifetime of the registry no two start calls return
\* the same handle.
C6_HandlesNeverReused ==
    \A i, j \in 1 .. Len(issued) : i # j => issued[i] # issued[j]

\* C6 as amended: between two reset_results no two start calls return the
\* same handle, and the handle of every record is its index in the deque.
C6_HandlesUniqueUntilReset ==
    /\ \A i, j \in epoch + 1 .. Len(issued) : i # j => issued[i] # issued[j]
    /\ Len(issued) - epoch = size
    /\ \A k \in 1 .. size : issued[epoch + k] = k - 1

\* C6 witness: a start after a reset_results has returned the handle the
\* first start returned.
C6_Witness ==
    /\ epoch > 0
    /\ Len(issued) > epoch
    /\ issued[Len(issued)] = issued[1]

\* C7: a stop on a record whose time an earlier stop has set stores a time
\* that is not below the one it replaces.
C7_ElapsedMonotonic ==
    [][\A process_id \in ProcessIds :
          (/\ stop(process_id)
           /\ in_range(process_id)
           /\ at(process_id).time # UNINITIALIZED) =>
              processes'[process_id + 1].time >= at(process_id).time]_vars

C9_ElapsedIsTruncatedQuotient ==
    [][\A process_id \in ProcessIds :
          (stop(process_id) /\ ~result'.threw) =>
              /\ processes'[process_id + 1].time >= 0
              /\ of_int(processes'[process_id + 1].time)
                    = duration_cast(at(process_id).resolution,
                                    Sub(clock, at(process_id).start_time))]_vars

\* C10: stop changes nothing but the time of the record at its handle, and
\* show_results changes no record.
C10_StopAndShowFrame ==
    [][/\ \A process_id \in ProcessIds :
             stop(process_id) =>
                 /\ Len(processes') = Len(processes)
                 /\ \A i \in 1 .. Len(processes) :
                       /\ processes'[i].name = processes[i].name
                       /\ processes'[i].resolution = processes[i].resolution
                       /\ processes'[i].start_time = processes[i].start_time
                       /\ i # process_id + 1 => processes'[i].time = processes[i].time
       /\ \A table_title \in Titles :
             show_results(table_title) => processes' = processes]_vars

\* C10 witness: stop has returned on one of two records that were started at
\* different instants, after the clock has moved on.
C10_Witness ==
    /\ last.op = "stop"
    /\ ~result.threw
    /\ size = 2
    /\ at(last.id).time > 0
    /\ processes[1].start_time # processes[2].start_time

====
